---- MODULE Spec2Model ----
(***************************************************************************)
(* Model of src/main.py: the MIDI control-surface handler (MIDIHandler),   *)
(* the audio session registry (WindowsAudioMixer), the eight channel       *)
(* strips and the main window's timer-driven update loop.                  *)
(*                                                                         *)
(* Values: a MIDI value is kept as its raw integer 0..127 (the decoded     *)
(* float is raw/127.0); Python's None is the integer NoneData; an audio    *)
(* application is named by a string, a session by its position in          *)
(* WindowsAudioMixer.sessions (0-based, as in the code), master by -1.     *)
(***************************************************************************)
EXTENDS Integers, Sequences, FiniteSets, TLC

(* ------------------------------ bounds --------------------------------- *)
\* channels of the surface the environment touches (strips past it stay idle)
MaxActive == 1
\* button messages the transport can hold for one poll
MaxPending == 2
\* fader messages the transport can hold for one poll
MaxFaderPending == 3
\* messages the transport can hold for one poll when two strips are used
MaxSlotPending == 2

(* ------------------------- program constants --------------------------- *)
NumStrips == 8
NumButtonStates == 24
NumFaderValues == 8
MasterIdx == -1
NoneData == -2
PressThreshold == 64

(* -------------------------- environment values ------------------------- *)
\* an LED of the surface the program has not written yet
NoLed == -1
\* the volume (raw) of a stream nobody has set
DefaultVol == 64
\* the position of update_loop while the main thread is not inside it
NotInTick == -1

Strips == 0 .. (NumStrips - 1)
Active == 0 .. (MaxActive - 1)
Apps == {"a", "b"}

\* raw values the modelled surface sends for a button: just below and at the threshold
ButtonRaws == {63, 64}
\* raw values the modelled surface sends for a fader: bottom and top
FaderRaws == {0, 127}

CC(c, v) == [type |-> "control_change", control |-> c, value |-> v]

\* the messages of the mute buttons of the active channels
ButtonMsgs == {CC(32 + c, v) : c \in Active, v \in ButtonRaws}
\* the messages of the mute buttons of two neighbouring channels
TwoButtonMsgs == {CC(32 + c, v) : c \in {0, 1}, v \in ButtonRaws}
\* the messages of the faders of the active channels
FaderMsgs == {CC(c, v) : c \in Active, v \in FaderRaws}
\* the mute buttons of the first two strips, pressed
SlotMsgs == {CC(32, 64), CC(33, 64)}
\* what the surface sends for the fader and the mute button of strip c
StripMsgs(c) == {CC(c, v) : v \in FaderRaws} \cup {CC(32 + c, v) : v \in ButtonRaws}
\* the first fader at bottom and top, the first knob, a control nothing is mapped to
InboundMsgs == {CC(0, 0), CC(0, 127), CC(16, 127), CC(8, 127)}
\* the first fader at the top, the first knob
DecodeMsgs == {CC(0, 127), CC(16, 127)}
\* the first mute button
MuteMsgs == {CC(32, v) : v \in ButtonRaws}

RECURSIVE SeqsUpTo(_, _)
SeqsUpTo(S, n) ==
    IF n = 0 THEN {<<>>}
    ELSE LET shorter == SeqsUpTo(S, n - 1)
         IN  shorter \cup {Append(q, m) : q \in {r \in shorter : Len(r) = n - 1}, m \in S}

RECURSIVE Perms(_)
Perms(S) ==
    IF S = {} THEN {<<>>}
    ELSE UNION {{<<x>> \o p : p \in Perms(S \ {x})} : x \in S}

VARIABLES
    midi_in,        \* MIDIHandler.midi_in is an open port
    midi_out,       \* MIDIHandler.midi_out is an open port
    open_inputs,    \* input ports the transport has open for this process
    open_outputs,   \* output ports the transport has open for this process
    button_states,  \* MIDIHandler.button_states
    fader_values,   \* MIDIHandler.fader_values (raw)
    knob_values,    \* MIDIHandler.knob_values (raw)
    sessions,       \* WindowsAudioMixer.sessions: the apps of the last enumeration
    masterMute,     \* the endpoint's mute
    masterVol,      \* the endpoint's volume (raw)
    running,        \* apps that have a live audio session
    appMute,        \* mute of each app's session
    appVol,         \* volume of each app's session (raw)
    options,        \* item data of every strip's app_selector ("Not Assigned" left out)
    currentData,    \* app_selector.currentData() of each strip
    is_muted,       \* ChannelStrip.is_muted of each strip
    fader,          \* ChannelStrip.fader value (percent) of each strip
    timerActive,    \* update_timer.isActive()
    led,            \* last value the surface received for each LED control
    log,            \* what the last handler did, in order
    update_loop_at  \* the strip update_loop's loop is about to visit; NotInTick outside it

\* the handler's two port attributes and the ports open behind them
ports == <<midi_in, midi_out, open_inputs, open_outputs>>

vars == <<ports, button_states, fader_values, knob_values, sessions,
          masterMute, masterVol, running, appMute, appVol, options, currentData,
          is_muted, fader, timerActive, led, log, update_loop_at>>

(* --------------------------- WindowsAudioMixer -------------------------- *)
\* 0 <= session_idx < len(self.sessions)
InRange(idx) == 0 <= idx /\ idx < Len(sessions)

\* the application behind self.sessions[session_idx]
SessionApp(idx) == sessions[idx + 1]

\* a COM call on a session object succeeds while its application still has a
\* live session and raises once the session is gone
CallRaises(idx) == InRange(idx) /\ SessionApp(idx) \notin running

\* an identifier that is neither master nor a stream that still exists
Stale(idx) == idx # MasterIdx /\ (~InRange(idx) \/ SessionApp(idx) \notin running)

\* WindowsAudioMixer.update_sessions counting the streams from master's identifier
app_list_from_master(enum) == <<MasterIdx>> \o [i \in 1 .. Len(enum) |-> i - 2]
\* WindowsAudioMixer.update_sessions: the (index, name) pairs offered to the strips,
\* master first; `enum` is what AudioUtilities.GetAllSessions returned
app_list(enum) == <<MasterIdx>> \o [i \in 1 .. Len(enum) |-> i - 1]

\* WindowsAudioMixer.set_volume: returns None on every path; the except clause
\* swallows a failed call
set_volume(h, idx, raw) ==
    LET outcome == IF idx = MasterIdx THEN "ok"
                   ELSE IF ~InRange(idx) THEN "skipped"
                   ELSE IF CallRaises(idx) THEN "error"
                   ELSE "ok"
        h1 == IF idx = MasterIdx THEN [h EXCEPT !.masterVol = raw]
              ELSE IF outcome = "ok"
                   THEN [h EXCEPT !.appVol[SessionApp(idx)] = raw]
                   ELSE h
    IN  [h1 EXCEPT !.log = Append(@, [op |-> "set_volume", idx |-> idx, raw |-> raw,
                                      outcome |-> outcome, ret |-> "None"])]

\* the value WindowsAudioMixer.toggle_mute returns
toggle_mute_ret(h, idx) ==
    IF idx = MasterIdx THEN ~h.masterMute
    ELSE IF InRange(idx) /\ ~CallRaises(idx) THEN ~h.appMute[SessionApp(idx)]
    ELSE FALSE

\* WindowsAudioMixer.toggle_mute with no except clause: a call on a stream
\* leaves by an exception
toggle_mute_raising(h, idx) ==
    [h EXCEPT !.exc = (idx # MasterIdx),
              !.log = Append(@, [op |-> "toggle_mute", idx |-> idx,
                                 outcome |-> "error", ret |-> FALSE])]
\* WindowsAudioMixer.toggle_mute
toggle_mute(h, idx) ==
    LET outcome == IF idx = MasterIdx THEN "ok"
                   ELSE IF ~InRange(idx) THEN "skipped"
                   ELSE IF CallRaises(idx) THEN "error"
                   ELSE "ok"
        ret == toggle_mute_ret(h, idx)
        h1 == IF idx = MasterIdx THEN [h EXCEPT !.masterMute = ret]
              ELSE IF outcome = "ok"
                   THEN [h EXCEPT !.appMute[SessionApp(idx)] = ret]
                   ELSE h
    IN  [h1 EXCEPT !.log = Append(@, [op |-> "toggle_mute", idx |-> idx,
                                      outcome |-> outcome, ret |-> ret])]

\* WindowsAudioMixer.is_muted (mixer_ tells it from ChannelStrip.is_muted)
mixer_is_muted(h, idx) ==
    IF idx = MasterIdx THEN h.masterMute
    ELSE IF InRange(idx) /\ ~CallRaises(idx) THEN h.appMute[SessionApp(idx)]
    ELSE FALSE

\* WindowsAudioMixer.get_volume (raw; the failure value 0.0 is raw 0)
get_volume(h, idx) ==
    IF idx = MasterIdx THEN h.masterVol
    ELSE IF InRange(idx) /\ ~CallRaises(idx) THEN h.appVol[SessionApp(idx)]
    ELSE 0

(* ------------------------------ ChannelStrip ---------------------------- *)
\* ChannelStrip.set_fader_value: int(value * 100) with value = raw / 127.0
set_fader_value(h, channel, raw) ==
    [h EXCEPT !.fader[channel] = (raw * 100) \div 127]

\* ChannelStrip.set_mute_state writing the new state back to the endpoint as a toggle
set_mute_state_echo(h, channel, muted) ==
    [h EXCEPT !.is_muted[channel] = muted, !.masterMute = ~@]
\* ChannelStrip.set_mute_state
set_mute_state(h, channel, muted) ==
    [h EXCEPT !.is_muted[channel] = muted]

(* ------------------------------ MIDIHandler ----------------------------- *)
\* MIDIHandler.send_led_feedback addressing the LED one control further up
send_led_feedback_shifted(h, button_idx, state) ==
    IF ~midi_out THEN h
    ELSE [h EXCEPT !.log = Append(@, [op |-> "send", control |-> 33 + button_idx,
                                      value |-> IF state THEN 127 ELSE 0,
                                      prev |-> NoLed])]
\* MIDIHandler.send_led_feedback; h.hw says what the output port does with a send.
\* A send that raises leaves the handler by an exception nothing catches.
send_led_feedback(h, button_idx, state) ==
    LET cc == 32 + button_idx
        value == IF state THEN 127 ELSE 0
    IN  IF ~midi_out THEN h
        ELSE IF h.hw \in {"send_print", "send_propagate"}
        THEN [h EXCEPT !.exc = TRUE,
                       !.log = Append(@, [op |-> "unhandled", at |-> "send_led_feedback"])]
        ELSE [h EXCEPT !.led[cc] = value,
                       !.log = Append(@, [op |-> "send", control |-> cc, value |-> value,
                                          prev |-> h.led[cc]])]

(* ------------------------- MainWindow signal slots ---------------------- *)
\* MainWindow.on_midi_fader_moved setting master's volume whatever the strip is bound to
on_midi_fader_moved_master(h, channel, raw) ==
    set_volume(set_fader_value(h, channel, raw), MasterIdx, raw)
\* MainWindow.on_midi_fader_moved
on_midi_fader_moved(h, channel, raw) ==
    IF 0 <= channel /\ channel < NumStrips
    THEN LET h1 == set_fader_value(h, channel, raw)
             session_idx == currentData[channel]
         IN  IF session_idx # NoneData THEN set_volume(h1, session_idx, raw) ELSE h1
    ELSE h

\* MainWindow.on_midi_button_pressed
on_midi_button_pressed(h, channel, state) ==
    IF 0 <= channel /\ channel < NumStrips
    THEN LET session_idx == currentData[channel]
         IN  IF session_idx # NoneData
             THEN LET h1 == toggle_mute(h, session_idx)
                      new_mute_state == toggle_mute_ret(h, session_idx)
                      h2 == set_mute_state(h1, channel, new_mute_state)
                  IN  send_led_feedback(h2, channel, new_mute_state)
             ELSE h
    ELSE h

\* the signal knob_turned with a slot that moves the strip's fader
knob_turned_moves_fader(h, channel, raw) == on_midi_fader_moved(h, channel, raw)
\* the signal knob_turned: MainWindow.__init__ connects no slot to it, emitting
\* it runs nothing
knob_turned(h, channel, raw) == h

\* the end of a slot a signal called: an exception the slot raised is either
\* printed there, and the emitter goes on, or handed on to the emitter
SlotReturn(h) ==
    IF h.exc /\ h.hw = "send_print" THEN [h EXCEPT !.exc = FALSE] ELSE h

\* value = msg.value / 127.0 of MIDIHandler.process_control_change, as the
\* fraction <<numerator, denominator>>; the state keeps the numerator
decode_percent(raw) == <<raw, 100>>
decode(raw) == <<raw, 127>>

\* the debounce test of MIDIHandler.process_control_change
state_changed_always(h, channel, state) == TRUE
state_changed(h, channel, state) == h.button_states[channel] # state

\* MIDIHandler.process_control_change
process_control_change(h, msg) ==
    IF 0 <= msg.control /\ msg.control <= 7
    THEN LET channel == msg.control
             h1 == [h EXCEPT !.fader_values[channel] = msg.value,
                             !.log = Append(@, [op |-> "fader_moved", ch |-> channel,
                                                raw |-> msg.value,
                                                value |-> decode(msg.value)])]
         IN  on_midi_fader_moved(h1, channel, msg.value)
    ELSE IF 16 <= msg.control /\ msg.control <= 23
    THEN LET channel == msg.control - 16
             h1 == [h EXCEPT !.knob_values[channel] = msg.value,
                             !.log = Append(@, [op |-> "knob_turned", ch |-> channel,
                                                raw |-> msg.value])]
         IN  knob_turned(h1, channel, msg.value)
    ELSE IF 32 <= msg.control /\ msg.control <= 39
    THEN LET channel == msg.control - 32
             state == msg.value >= PressThreshold
         IN  IF state_changed(h, channel, state)
             THEN LET h1 == [h EXCEPT !.button_states[channel] = state,
                                      !.log = Append(@, [op |-> "button_pressed",
                                                         ch |-> channel, state |-> state,
                                                         was |-> h.button_states[channel]])]
                  IN  SlotReturn(on_midi_button_pressed(h1, channel, state))
             ELSE h
    ELSE h

\* MIDIHandler.poll_messages: the loop over iter_pending(); an exception on its
\* way out ends the loop
RECURSIVE poll_loop(_, _)
poll_loop(h, msgs) ==
    IF msgs = <<>> \/ h.exc THEN h
    ELSE LET msg == Head(msgs)
             h1 == IF msg.type = "control_change" THEN process_control_change(h, msg) ELSE h
             h2 == IF h1.exc THEN h1
                   ELSE [h1 EXCEPT !.log = Append(@, [op |-> "raw_message_received",
                                                      msg |-> msg])]
         IN  poll_loop(h2, Tail(msgs))

\* MIDIHandler.poll_messages; with hw = "poll_raises" the port fails once `msgs`
\* have been handed out, and iter_pending() raises
poll_messages(h, msgs) ==
    IF ~midi_in THEN h
    ELSE LET h1 == poll_loop(h, msgs)
         IN  IF ~h1.exc /\ h.hw = "poll_raises"
             THEN [h1 EXCEPT !.exc = TRUE,
                             !.log = Append(@, [op |-> "unhandled", at |-> "poll_messages"])]
             ELSE h1

\* one pass of the loop of MainWindow.update_loop: strip c
reconcile_strip(h, c) ==
    LET session_idx == currentData[c]
        muted == mixer_is_muted(h, session_idx)
    IN  IF session_idx # NoneData /\ muted # h.is_muted[c]
        THEN [set_mute_state(h, c, muted) EXCEPT
                 !.log = Append(@, [op |-> "reflect", ch |-> c, muted |-> muted])]
        ELSE h

\* the loop of MainWindow.update_loop over the strips, from strip c on
\* the loop over the strips left out
reconcile_skipped(h, c) == h

RECURSIVE reconcile(_, _)
reconcile(h, c) ==
    IF c >= NumStrips THEN h ELSE reconcile(reconcile_strip(h, c), c + 1)

\* MainWindow.update_loop
update_loop(h, msgs) ==
    LET h1 == poll_messages(h, msgs)
    IN  IF h1.exc THEN h1 ELSE reconcile(h1, 0)

(* ------------------------------- the machine ---------------------------- *)
\* what the transport does during one tick
HwOutcomes == {"ok", "send_print", "send_propagate", "poll_raises"}

\* the state a handler works on
Handler(hw) ==
    [button_states |-> button_states, fader_values |-> fader_values,
     knob_values |-> knob_values, masterMute |-> masterMute, masterVol |-> masterVol,
     appMute |-> appMute, appVol |-> appVol, is_muted |-> is_muted, fader |-> fader,
     led |-> led, log |-> <<>>, exc |-> FALSE, hw |-> hw]

\* MIDIHandler.__init__, WindowsAudioMixer.__init__, the strips of setup_main_tab
\* and the timer of MainWindow.__init__, before the first device dialog
Init ==
    /\ midi_in = FALSE
    /\ midi_out = FALSE
    /\ open_inputs = 0
    /\ open_outputs = 0
    /\ button_states = [i \in 0 .. (NumButtonStates - 1) |-> FALSE]
    /\ fader_values = [i \in 0 .. (NumFaderValues - 1) |-> 0]
    /\ knob_values = [i \in 0 .. (NumFaderValues - 1) |-> 0]
    /\ running \in SUBSET Apps
    /\ sessions \in Perms(running)
    /\ masterMute = FALSE
    /\ masterVol = DefaultVol
    /\ appMute = [a \in Apps |-> FALSE]
    /\ appVol = [a \in Apps |-> DefaultVol]
    /\ options = {}
    /\ currentData = [c \in Strips |-> NoneData]
    /\ is_muted = [c \in Strips |-> FALSE]
    /\ fader = [c \in Strips |-> 0]
    /\ timerActive = FALSE
    /\ led = [cc \in 32 .. 39 |-> NoLed]
    /\ log = <<>>
    /\ update_loop_at = NotInTick

\* the selection a strip keeps in MainWindow.update_app_list: set_app_options
\* leaves "Not Assigned" current, findData restores the old item data if offered
Restore(current_app, offered) ==
    IF current_app # NoneData /\ current_app \in offered THEN current_app ELSE NoneData

\* MainWindow.update_app_list with WindowsAudioMixer.update_sessions
update_app_list(enum) ==
    LET offered == {app_list(enum)[i] : i \in 1 .. Len(app_list(enum))}
    IN  /\ sessions' = enum
        /\ options' = offered
        /\ currentData' = [c \in Strips |-> Restore(currentData[c], offered)]

\* the Refresh Apps button
RefreshApps ==
    /\ \E enum \in Perms(running) : update_app_list(enum)
    /\ log' = <<>>
    /\ UNCHANGED <<update_loop_at, ports, button_states, fader_values, knob_values,
                   masterMute, masterVol, running, appMute, appVol, is_muted, fader,
                   timerActive, led>>

\* the ports of the handler as one value
Ports ==
    [midi_in |-> midi_in, midi_out |-> midi_out,
     open_inputs |-> open_inputs, open_outputs |-> open_outputs]

SetPorts(p) ==
    /\ midi_in' = p.midi_in
    /\ midi_out' = p.midi_out
    /\ open_inputs' = p.open_inputs
    /\ open_outputs' = p.open_outputs

\* MIDIHandler.close, dropping the attributes without closing the ports
close_forgets(p) == [p EXCEPT !.midi_in = FALSE, !.midi_out = FALSE]
\* MIDIHandler.close: a port the handler holds is closed and its attribute set to None
close(p) ==
    LET p1 == IF p.midi_in
              THEN [p EXCEPT !.open_inputs = @ - 1, !.midi_in = FALSE]
              ELSE p
    IN  IF p1.midi_out
        THEN [p1 EXCEPT !.open_outputs = @ - 1, !.midi_out = FALSE]
        ELSE p1

\* how the two opens of MIDIHandler.connect_device can go
ConnectOutcomes == {"ok", "input_fails", "output_fails"}

\* the try block of MIDIHandler.connect_device after its close(): open_input,
\* then open_output; the first open that raises ends it with False
open_ports(p, outcome) ==
    IF outcome = "input_fails" THEN [ports |-> p, ret |-> FALSE]
    ELSE LET p1 == [p EXCEPT !.midi_in = TRUE, !.open_inputs = @ + 1]
         IN  IF outcome = "output_fails" THEN [ports |-> p1, ret |-> FALSE]
             ELSE [ports |-> [p1 EXCEPT !.midi_out = TRUE, !.open_outputs = @ + 1],
                   ret |-> TRUE]

\* MIDIHandler.connect_device without its close()
connect_device_keeps(p, outcome) == open_ports(p, outcome)
\* MIDIHandler.connect_device: the ports it leaves and its return value
connect_device(p, outcome) == open_ports(close(p), outcome)

\* update_timer started whenever the dialog was accepted
timer_after_dialog_accepted(accepted, ret) == accepted
\* update_timer at the end of MainWindow.show_device_selection: stopped before
\* the dialog, started again only when connect_device returned True
timer_after_dialog(accepted, ret) == accepted /\ ret

\* MainWindow.show_device_selection
show_device_selection ==
    \E accepted \in BOOLEAN, outcome \in ConnectOutcomes :
        LET p0 == close(Ports)
            r == connect_device(p0, outcome)
            connected == accepted /\ r.ret
        IN  /\ log' = IF accepted
                      THEN <<[op |-> "close"], [op |-> "connect_device", ret |-> r.ret]>>
                      ELSE <<[op |-> "close"]>>
            /\ SetPorts(IF accepted THEN r.ports ELSE p0)
            /\ timerActive' = timer_after_dialog(accepted, r.ret)
            /\ IF connected
               THEN \E enum \in Perms(running) : update_app_list(enum)
               ELSE UNCHANGED <<sessions, options, currentData>>
            /\ UNCHANGED <<update_loop_at, button_states, fader_values, knob_values, masterMute,
                           masterVol, running, appMute, appVol, is_muted, fader, led>>

\* one timeout of update_timer: MainWindow.update_loop on what the port holds
Tick(Pending, Hw) ==
    /\ timerActive
    /\ \E msgs \in Pending, hw \in Hw :
        \E h \in {update_loop(Handler(hw), msgs)} :
            /\ button_states' = h.button_states
            /\ fader_values' = h.fader_values
            /\ knob_values' = h.knob_values
            /\ masterMute' = h.masterMute
            /\ masterVol' = h.masterVol
            /\ appMute' = h.appMute
            /\ appVol' = h.appVol
            /\ is_muted' = h.is_muted
            /\ fader' = h.fader
            /\ led' = h.led
            /\ log' = h.log
    /\ UNCHANGED <<update_loop_at, ports, sessions, running, options, currentData, timerActive>>

\* the main thread is in the Qt event loop and will run every handler
EventLoopRuns_always == TRUE
\* the main thread is in the Qt event loop (QApplication.exec), which alone
\* delivers timeouts, clicks and selections: update_loop and the slots it
\* calls run no event loop of their own
EventLoopRuns == update_loop_at = NotInTick

\* the first step of a timeout of update_timer: update_loop is entered and
\* polls; it goes on to its loop over the strips unless an exception ended it
TickPoll(Pending, Hw) ==
    /\ EventLoopRuns
    /\ timerActive
    /\ \E msgs \in Pending, hw \in Hw :
        \E h \in {poll_messages(Handler(hw), msgs)} :
            /\ button_states' = h.button_states
            /\ fader_values' = h.fader_values
            /\ knob_values' = h.knob_values
            /\ masterMute' = h.masterMute
            /\ masterVol' = h.masterVol
            /\ appMute' = h.appMute
            /\ appVol' = h.appVol
            /\ is_muted' = h.is_muted
            /\ fader' = h.fader
            /\ led' = h.led
            /\ log' = h.log
            /\ update_loop_at' = IF h.exc THEN NotInTick ELSE 0
    /\ UNCHANGED <<ports, sessions, running, options, currentData, timerActive>>

\* a later step of update_loop: its loop visits the next strip, and returns
\* to the event loop after the last one
TickStrip ==
    /\ update_loop_at \in Strips
    /\ \E h \in {reconcile_strip(Handler("ok"), update_loop_at)} :
        /\ is_muted' = h.is_muted
        /\ log' = log \o h.log
    /\ update_loop_at' = IF update_loop_at + 1 = NumStrips THEN NotInTick
                         ELSE update_loop_at + 1
    /\ UNCHANGED <<ports, button_states, fader_values, knob_values, sessions,
                   masterMute, masterVol, running, appMute, appVol, options,
                   currentData, fader, timerActive, led>>

\* the user picks, in the app_selector of one of the strips Chs, "Not Assigned"
\* or an offered item whose data is in Data
select_app(Chs, Data) ==
    /\ \E c \in Chs, d \in (options \cap Data) \cup {NoneData} :
        currentData' = [currentData EXCEPT ![c] = d]
    /\ options # {}
    /\ log' = <<>>
    /\ UNCHANGED <<update_loop_at, ports, button_states, fader_values, knob_values, sessions,
                   masterMute, masterVol, running, appMute, appVol, options, is_muted,
                   fader, timerActive, led>>

\* the user picks an item of a strip's app_selector
SelectApp == select_app(Active, options)

\* ChannelStrip.on_mute_clicked: the user clicks the mute button of one of the
\* strips Chs
mute_clicked(Chs) ==
    /\ \E c \in Chs : is_muted' = [is_muted EXCEPT ![c] = ~@]
    /\ log' = <<>>
    /\ UNCHANGED <<update_loop_at, ports, button_states, fader_values, knob_values, sessions,
                   masterMute, masterVol, running, appMute, appVol, options, currentData,
                   fader, timerActive, led>>

\* ChannelStrip.on_mute_clicked on a strip in use
on_mute_clicked == mute_clicked(Active)

\* MainWindow.closeEvent
closeEvent ==
    /\ \E tray_visible \in BOOLEAN :
        IF tray_visible
        THEN UNCHANGED <<ports, timerActive>>
        ELSE /\ timerActive' = FALSE
             /\ SetPorts(close(Ports))
    /\ log' = <<[op |-> "closeEvent"]>>
    /\ UNCHANGED <<update_loop_at, button_states, fader_values, knob_values, sessions, masterMute,
                   masterVol, running, appMute, appVol, options, currentData, is_muted,
                   fader, led>>

\* MIDIHandler.connect_device called on the handler as it stands
ConnectDevice ==
    /\ \E outcome \in ConnectOutcomes :
        LET r == connect_device(Ports, outcome)
        IN  /\ SetPorts(r.ports)
            /\ log' = <<[op |-> "connect_device", ret |-> r.ret,
                         was_in |-> midi_in, was_out |-> midi_out]>>
    /\ UNCHANGED <<update_loop_at, button_states, fader_values, knob_values, sessions, masterMute,
                   masterVol, running, appMute, appVol, options, currentData, is_muted,
                   fader, timerActive, led>>

\* MIDIHandler.close called on the handler as it stands
Close ==
    /\ SetPorts(close(Ports))
    /\ log' = <<[op |-> "close", was_in |-> midi_in, was_out |-> midi_out]>>
    /\ UNCHANGED <<update_loop_at, button_states, fader_values, knob_values, sessions, masterMute,
                   masterVol, running, appMute, appVol, options, currentData, is_muted,
                   fader, timerActive, led>>

(* ------------------------------ environment ----------------------------- *)
\* something other than this program mutes or unmutes a stream or the endpoint
ExternalMute ==
    /\ \/ /\ masterMute' = ~masterMute
          /\ UNCHANGED appMute
       \/ /\ \E a \in running : appMute' = [appMute EXCEPT ![a] = ~@]
          /\ UNCHANGED masterMute
    /\ log' = <<>>
    /\ UNCHANGED <<update_loop_at, ports, button_states, fader_values, knob_values, sessions,
                   masterVol, running, appVol, options, currentData, is_muted, fader,
                   timerActive, led>>

\* an application opens an audio session
AppStart ==
    /\ \E a \in Apps \ running : running' = running \cup {a}
    /\ log' = <<>>
    /\ UNCHANGED <<update_loop_at, ports, button_states, fader_values, knob_values, sessions,
                   masterMute, masterVol, appMute, appVol, options, currentData, is_muted,
                   fader, timerActive, led>>

\* an application's audio session goes away
AppExit ==
    /\ \E a \in running :
        /\ running' = running \ {a}
        /\ appMute' = [appMute EXCEPT ![a] = FALSE]
        /\ appVol' = [appVol EXCEPT ![a] = DefaultVol]
    /\ log' = <<>>
    /\ UNCHANGED <<update_loop_at, ports, button_states, fader_values, knob_values, sessions,
                   masterMute, masterVol, options, currentData, is_muted, fader,
                   timerActive, led>>

\* what one poll can find queued when the buttons, or the faders, are used
PendingButtons == SeqsUpTo(ButtonMsgs, MaxPending)
PendingFaders == SeqsUpTo(FaderMsgs, MaxFaderPending)
PendingTwoButtons == SeqsUpTo(TwoButtonMsgs, MaxPending)
PendingSlots == SeqsUpTo(SlotMsgs, MaxSlotPending)
PendingInbound == SeqsUpTo(InboundMsgs, MaxPending)
PendingDecode == SeqsUpTo(DecodeMsgs, MaxPending)
PendingMute == SeqsUpTo(MuteMsgs, MaxPending)

\* the handlers of the program; Pending is what a poll can find queued, Hw what
\* the transport can do during a tick
Program(Pending, Hw) ==
    \/ show_device_selection
    \/ RefreshApps
    \/ Tick(Pending, Hw)
    \/ SelectApp
    \/ closeEvent

\* applications come and go
Sessions ==
    \/ AppStart
    \/ AppExit

\* the surface's mute buttons are used, mute is also changed from outside
Next ==
    \/ Program(PendingButtons, HwOutcomes)
    \/ on_mute_clicked
    \/ ExternalMute
    \/ Sessions

Spec == Init /\ [][Next]_vars

\* the surface's faders are used, the output port works
NextFader ==
    \/ Program(PendingFaders, {"ok", "poll_raises"})
    \/ Sessions

SpecFader == Init /\ [][NextFader]_vars

\* the debounce layer alone: the mute buttons of two channels are used, over
\* connects, disconnects and transport failures, while no strip is bound
NextButtons ==
    \/ show_device_selection
    \/ Tick(PendingTwoButtons, HwOutcomes)

SpecButtons == Init /\ [][NextButtons]_vars

\* two strips side by side: the first can be bound to the first stream, the
\* second to master and its mute button clicked on screen; streams go away;
\* both mute buttons are pressed, the transport works
NextSlots ==
    \/ show_device_selection
    \/ select_app({0}, {0})
    \/ select_app({1}, {MasterIdx})
    \/ mute_clicked({1})
    \/ Tick(PendingSlots, {"ok"})
    \/ AppExit

SpecSlots == Init /\ [][NextSlots]_vars

\* the first two strips sharing a stream: both can be put on master, either
\* button can be pressed, and a click desynchronises one cache
NextShared ==
    \/ show_device_selection
    \/ select_app({0, 1}, {MasterIdx})
    \/ mute_clicked({0})
    \/ Tick(PendingSlots, {"ok"})

SpecShared == Init /\ [][NextShared]_vars

\* the decoding layer alone: fader, knob and an unmapped control are used
\* while no strip is bound
NextInbound ==
    \/ show_device_selection
    \/ Tick(PendingInbound, {"ok"})

SpecInbound == Init /\ [][NextInbound]_vars

\* the inbound path of the first strip: it can be bound to anything offered,
\* streams go away, its fader and its knob are used
NextDecode ==
    \/ show_device_selection
    \/ select_app({0}, options)
    \/ Tick(PendingDecode, {"ok"})
    \/ AppExit

SpecDecode == Init /\ [][NextDecode]_vars

\* the mute path of the first strip: it can be bound to anything offered, its
\* button is used, mute is also changed from outside, streams go away
NextMute ==
    \/ show_device_selection
    \/ select_app({0}, options)
    \/ Tick(PendingMute, {"ok"})
    \/ ExternalMute
    \/ AppExit

SpecMute == Init /\ [][NextMute]_vars

\* update_loop step by step among the handlers of the window: the user binds and
\* unbinds the first strip, clicks its mute button, refreshes the list, changes
\* the device and closes the window, the first mute button is used
NextLoop ==
    \/ TickPoll(PendingMute, {"ok", "poll_raises"})
    \/ TickStrip
    \/ EventLoopRuns /\ show_device_selection
    \/ EventLoopRuns /\ RefreshApps
    \/ EventLoopRuns /\ select_app({0}, options)
    \/ EventLoopRuns /\ mute_clicked({0})
    \/ EventLoopRuns /\ closeEvent

SpecLoop == Init /\ [][NextLoop]_vars

\* the life of the connection: the device dialog and the close event between
\* ticks, over transport failures, with the first strip bound or not
NextLifecycle ==
    \/ show_device_selection
    \/ closeEvent
    \/ select_app({0}, options)
    \/ Tick(PendingMute, HwOutcomes)

SpecLifecycle == Init /\ [][NextLifecycle]_vars

\* The lifecycle of a user who opens the device dialog only while no tick
\* timer runs (the dialog of the constructor, and again after a failed
\* connect or a completed shutdown), under the timer's scheduling: while
\* update_timer is active Qt keeps delivering its timeout, so a tick that
\* stays enabled is taken. Nothing obliges the user to act.
NextShutdown ==
    \/ ~timerActive /\ show_device_selection
    \/ closeEvent
    \/ select_app({0}, options)
    \/ Tick(PendingMute, HwOutcomes)

SpecShutdown ==
    Init /\ [][NextShutdown]_vars /\ WF_vars(Tick(PendingMute, HwOutcomes))

\* the port layer alone: the methods of MIDIHandler that open and close ports,
\* called in any order, directly or by the window, between polls of the buttons
NextPorts ==
    \/ ConnectDevice
    \/ Close
    \/ show_device_selection
    \/ closeEvent
    \/ Tick(PendingButtons, {"ok"})

SpecPorts == Init /\ [][NextPorts]_vars

(* ================================ claims ================================ *)
LogIdx == 1 .. Len(log)
IsOp(i, name) == log[i].op = name
LedValue(on) == IF on THEN 127 ELSE 0

\* C1: mute toggling is rising-edge only. Every registry toggle a tick makes
\* answers a press (the edge handed to the slot is a rising one), and an edge
\* that is a release is followed by no toggle and no LED write.
C1_RisingEdgeOnly ==
    \A i \in LogIdx :
        /\ IsOp(i, "toggle_mute") =>
              i > 1 /\ IsOp(i - 1, "button_pressed") /\ log[i - 1].state
        /\ (IsOp(i, "button_pressed") /\ ~log[i].state /\ i < Len(log)) =>
              ~IsOp(i + 1, "toggle_mute") /\ ~IsOp(i + 1, "send")

\* C2: LED write suppression. Every LED value written to the surface differs
\* from the value last written to that LED.
C2_LedSuppression ==
    \A i \in LogIdx : IsOp(i, "send") => log[i].value # log[i].prev

\* C3: external-change reflection. When the reconciliation pass of a tick finds
\* that the stream bound to strip c has another mute state than the strip's
\* cache, the tick leaves the cache at the new value and has written
\* sendLed(c, newValue) to the surface.
C3_ExternalReflection ==
    \A i \in LogIdx :
        IsOp(i, "reflect") =>
            /\ is_muted[log[i].ch] = log[i].muted
            /\ \E j \in LogIdx :
                  /\ j > i
                  /\ IsOp(j, "send")
                  /\ log[j].control = 32 + log[i].ch
                  /\ log[j].value = LedValue(log[i].muted)

\* the application a strip's selection stands for, given the session list
BoundApp(ss, d) == IF 0 <= d /\ d < Len(ss) THEN {ss[d + 1]} ELSE {}

\* C4: revalidation on refresh is identity-based. Over a step that replaces the
\* session list, a strip bound to a stream stays bound to that same stream when
\* the new enumeration still holds it, and is unbound when it does not; a strip
\* bound to master stays bound to master.
C4_IdentityRevalidation ==
    [][sessions' # sessions =>
          \A c \in Strips :
              /\ currentData[c] = MasterIdx => currentData'[c] = MasterIdx
              /\ \A app \in BoundApp(sessions, currentData[c]) :
                    IF \E j \in 1 .. Len(sessions') : sessions'[j] = app
                    THEN BoundApp(sessions', currentData'[c]) = {app}
                    ELSE currentData'[c] = NoneData]_vars

\* the entries of the log that are registry calls changing a stream
RegistryCalls == {i \in LogIdx : IsOp(i, "set_volume") \/ IsOp(i, "toggle_mute")}

\* C5: auto-unbind. A tick that made three registry calls in a row for a
\* strip, all failing, leaves that strip unbound. (Every registry call follows
\* the log entry of the surface event of its strip.)
C5_AutoUnbind ==
    \A i, j, k \in RegistryCalls :
        (/\ i < j /\ j < k
         /\ \A n \in {i, j, k} : log[n].outcome # "ok" /\ log[n - 1].ch = log[i - 1].ch
         /\ \A n \in RegistryCalls : (i < n /\ n < k) => n = j)
        => currentData[log[i - 1].ch] = NoneData

\* identifiers a caller can hand to the registry: master, the sessions, one past
SessionIds == MasterIdx .. Cardinality(Apps)

\* C6: operations on a stale identifier fail recognisably. What an operation
\* returns for a stale identifier differs from what it returns, in the same
\* state, for any identifier that is not stale.
C6_StaleFails ==
    \A i, j \in SessionIds :
        (Stale(i) /\ ~Stale(j)) =>
            LET h == Handler("ok")
                Ret(x) == set_volume(h, x, 127).log[1].ret
            IN  /\ mixer_is_muted(h, i) # mixer_is_muted(h, j)
                /\ toggle_mute_ret(h, i) # toggle_mute_ret(h, j)
                /\ get_volume(h, i) # get_volume(h, j)
                /\ Ret(i) # Ret(j)

\* the button a message belongs to, and the boolean it decodes to
IsButtonMsg(m) == m.type = "control_change" /\ 32 <= m.control /\ m.control <= 39
Decoded(m) == m.value >= PressThreshold

\* the last raw_message_received entry of lg before q (0 when there is none)
PrevRaw(lg, q) ==
    LET before == {p \in 1 .. (q - 1) : lg[p].op = "raw_message_received"}
    IN  IF before = {} THEN 0 ELSE CHOOSE p \in before : \A r \in before : r <= p

\* the edges of button c emitted in lg up to entry q
EdgesUpTo(lg, c, q) ==
    {i \in 1 .. q : lg[i].op = "button_pressed" /\ lg[i].ch = c}

\* the boolean remembered for button c once the first q entries of lg are done,
\* `before` being the one remembered when the handler started
Remembered(lg, c, q, before) ==
    LET es == EdgesUpTo(lg, c, q)
    IN  IF es = {} THEN before[c]
        ELSE lg[CHOOSE i \in es : \A r \in es : r <= i].state

\* C7: button debounce. For every button message a poll has handled: an edge is
\* emitted for it exactly when its decoded boolean differs from the one
\* remembered for its channel, the edge carries the decoded boolean and that
\* channel; a message equal to the one right before it emits no edge; and the
\* remembered boolean of a channel changes only by an edge of that channel.
C7_Debounce ==
    [][/\ \A q \in 1 .. Len(log') :
              (log'[q].op = "raw_message_received" /\ IsButtonMsg(log'[q].msg)) =>
                  LET m == log'[q].msg
                      c == m.control - 32
                      p == PrevRaw(log', q)
                      emitted == {i \in (p + 1) .. (q - 1) : log'[i].op = "button_pressed"}
                      was == Remembered(log', c, p, button_states)
                  IN  /\ Decoded(m) # was =>
                            /\ Cardinality(emitted) = 1
                            /\ \A i \in emitted : log'[i].ch = c /\ log'[i].state = Decoded(m)
                      /\ Decoded(m) = was => emitted = {}
                      /\ (p > 0 /\ log'[p].msg = m) => emitted = {}
       /\ \A c \in 0 .. (NumButtonStates - 1) :
              button_states'[c] = Remembered(log', c, Len(log'), button_states)]_vars

\* C7 witness: a poll handled the same button message twice in a row, the first
\* emitted an edge and the second none
C7_Witness ==
    /\ Len(log) >= 3
    /\ IsOp(Len(log), "raw_message_received")
    /\ IsOp(Len(log) - 1, "raw_message_received")
    /\ log[Len(log)].msg = log[Len(log) - 1].msg
    /\ IsButtonMsg(log[Len(log)].msg)
    /\ \E i \in LogIdx : IsOp(i, "button_pressed")

\* C8: debounce memory is reset on reconnect. Right after a successful connect
\* every remembered button boolean is false.
C8_ResetOnReconnect ==
    (Len(log) = 2 /\ IsOp(2, "connect_device") /\ log[2].ret) =>
        \A i \in 0 .. (NumButtonStates - 1) : ~button_states[i]

\* C9: transport failures are contained. No exception of the transport leaves
\* a handler uncaught, and a tick whose poll failed ends Disconnected.
C9_TransportContained ==
    \A i \in LogIdx :
        /\ ~IsOp(i, "unhandled")
        /\ (IsOp(i, "unhandled") /\ log[i].at = "poll_messages") =>
              ~timerActive /\ ~midi_in /\ ~midi_out

\* C10: a failed connect leaves the prior state intact. A connect that fails
\* while a connection is open and the timer runs leaves both ports open and
\* the timer running.
C10_FailedConnectKeepsState ==
    [][(/\ midi_in /\ midi_out /\ timerActive
        /\ Len(log') = 2 /\ log'[2].op = "connect_device" /\ ~log'[2].ret)
       => (midi_in' /\ midi_out' /\ timerActive')]_vars

\* C11: connect is idempotent with respect to resources. However connect and
\* close have been called, the ports the transport has open are exactly the
\* ones the handler holds: at most one input and one output, and no port
\* opened by an earlier connect is left open; a connect called on the handler
\* in any reachable state leaves it so again.
C11_ConnectReleasesPrior ==
    /\ open_inputs = (IF midi_in THEN 1 ELSE 0)
    /\ open_outputs = (IF midi_out THEN 1 ELSE 0)
    /\ \A outcome \in ConnectOutcomes :
          LET p == connect_device(Ports, outcome).ports
          IN  /\ p.open_inputs = (IF p.midi_in THEN 1 ELSE 0)
              /\ p.open_outputs = (IF p.midi_out THEN 1 ELSE 0)

\* C11 witness: connect was called while both ports were open, and succeeded
C11_Witness ==
    /\ Len(log) = 1
    /\ IsOp(1, "connect_device")
    /\ log[1].was_in /\ log[1].was_out /\ log[1].ret
    /\ midi_in /\ midi_out

\* what MIDIHandler.close leaves when nothing is open any more
Closed == [midi_in |-> FALSE, midi_out |-> FALSE, open_inputs |-> 0, open_outputs |-> 0]

\* C12: close is idempotent and safe in every state. Called in any reachable
\* state (both ports open, one, or none) close leaves the handler fully closed
\* with no port open, and a second close changes nothing; the state after a
\* close call is that one.
C12_CloseIdempotent ==
    /\ close(Ports) = Closed
    /\ close(close(Ports)) = close(Ports)
    /\ (Len(log) = 1 /\ IsOp(1, "close")) => Ports = Closed

\* C12 witness: close was called while only the input port was open
C12_Witness ==
    /\ Len(log) = 1
    /\ IsOp(1, "close")
    /\ "was_in" \in DOMAIN log[1]
    /\ log[1].was_in /\ ~log[1].was_out
    /\ Ports = Closed

\* a registry call made for strip c fails: the strip is bound to an identifier
\* whose stream is gone
FailsFor(c) == currentData[c] # NoneData /\ Stale(currentData[c])

\* two messages of the first two strips, one each, in either order
SlotPairs ==
    {<<a, b>> : a \in StripMsgs(0), b \in StripMsgs(1)}
        \cup {<<b, a>> : a \in StripMsgs(0), b \in StripMsgs(1)}

\* C13: backend errors are isolated per slot and never abort a tick. Whenever
\* the loop runs and the registry calls of some bound strip fail, a tick that
\* finds a message of each of the first two strips runs to its end: both
\* messages are handled, every fader or button event of a bound strip makes
\* its registry call, and every bound strip ends the tick reconciled.
C13_BackendErrorsIsolated ==
    (timerActive /\ \E c \in Strips : FailsFor(c)) =>
        \A msgs \in SlotPairs :
            \A h \in {update_loop(Handler("ok"), msgs)} :
                /\ ~h.exc
                /\ Cardinality({i \in 1 .. Len(h.log) :
                                   h.log[i].op = "raw_message_received"}) = Len(msgs)
                /\ \A i \in 1 .. Len(h.log) :
                      /\ (h.log[i].op = "fader_moved" /\ currentData[h.log[i].ch] # NoneData)
                            => /\ h.log[i + 1].op = "set_volume"
                               /\ h.log[i + 1].idx = currentData[h.log[i].ch]
                      /\ (h.log[i].op = "button_pressed" /\ currentData[h.log[i].ch] # NoneData)
                            => /\ h.log[i + 1].op = "toggle_mute"
                               /\ h.log[i + 1].idx = currentData[h.log[i].ch]
                /\ \A c \in Strips :
                      currentData[c] # NoneData =>
                          h.is_muted[c] = mixer_is_muted(h, currentData[c])

\* C13 witness: in one tick a registry call for the first strip failed, then the
\* second strip's press toggled master, and both strips ended reconciled
C13_Witness ==
    /\ FailsFor(0)
    /\ currentData[1] = MasterIdx
    /\ is_muted[1] = masterMute
    /\ \E i, j \in LogIdx :
          /\ i < j
          /\ IsOp(i, "toggle_mute") /\ log[i].outcome = "error"
          /\ IsOp(j, "toggle_mute") /\ log[j].outcome = "ok" /\ log[j].idx = MasterIdx

\* a fraction <<n, d>> with d > 0 lies in [0, 1]; one fraction is at most another
InUnit(v) == 0 <= v[1] /\ v[1] <= v[2]
Leq(v, w) == v[1] * w[2] <= w[1] * v[2]

\* C14: fader decoding. For every raw value r in 0..127 on fader control c in
\* 0..7 the handler emits a fader move of channel c with value r/127; that
\* value lies in [0, 1] and does not decrease as r grows; the value the
\* handler keeps and the value the strip shows (percent) are within range
\* after it, and in every reachable state.
C14_FaderDecoding ==
    /\ \A r \in 0 .. 127 :
          /\ decode(r) = <<r, 127>>
          /\ InUnit(decode(r))
          /\ r < 127 => Leq(decode(r), decode(r + 1))
    /\ \A h0 \in {Handler("ok")} :
          \A c \in 0 .. 7, r \in 0 .. 127 :
              \A h \in {process_control_change(h0, CC(c, r))} :
                  /\ h.log[1] = [op |-> "fader_moved", ch |-> c, raw |-> r,
                                 value |-> decode(r)]
                  /\ h.fader_values[c] = r
                  /\ 0 <= h.fader[c] /\ h.fader[c] <= 100
    /\ \A c \in Strips :
          /\ InUnit(decode(fader_values[c]))
          /\ 0 <= fader[c] /\ fader[c] <= 100

\* C14 witness: a tick handled the first fader at the top: the move carries
\* 127/127 and the strip shows 100 percent
C14_Witness ==
    /\ \E i \in LogIdx :
          IsOp(i, "fader_moved") /\ log[i].ch = 0 /\ log[i].value = <<127, 127>>
    /\ fader_values[0] = 127
    /\ fader[0] = 100

\* raw values around the button threshold and at both ends
ProbeRaws == ButtonRaws \cup FaderRaws

\* the entries of a handler's log that are fader, knob or button events
Events(lg) ==
    {i \in 1 .. Len(lg) : lg[i].op \in {"fader_moved", "knob_turned", "button_pressed"}}

\* C15: inbound decoding table. From every reachable state, a control change
\* with control n gives a fader event of channel n for n in 0..7, a knob event
\* of channel n-16 for n in 16..23, and for n in 32..39 a button decode of
\* channel n-32 that is pressed exactly when raw >= 64; any other control
\* gives no event and changes nothing; a knob event changes nothing but the
\* handler's knob value: no strip cache, volume, mute or LED (bindings are not
\* written by any handler of a tick).
C15_DecodingTable ==
    \A h0 \in {Handler("ok")} :
        \A n \in 0 .. 127, v \in ProbeRaws :
            \A h \in {process_control_change(h0, CC(n, v))} :
                IF n \in 0 .. 7
                THEN /\ 1 \in Events(h.log) /\ Events(h.log) = {1}
                     /\ h.log[1].op = "fader_moved" /\ h.log[1].ch = n
                ELSE IF n \in 16 .. 23
                THEN /\ h.log = <<[op |-> "knob_turned", ch |-> n - 16, raw |-> v]>>
                     /\ [h EXCEPT !.knob_values = h0.knob_values, !.log = <<>>] = h0
                ELSE IF n \in 32 .. 39
                THEN /\ h.button_states[n - 32] = (v >= 64)
                     /\ Events(h.log) \subseteq {1}
                     /\ Events(h.log) = {1} =>
                           /\ h.log[1].op = "button_pressed"
                           /\ h.log[1].ch = n - 32
                           /\ h.log[1].state = (v >= 64)
                ELSE h = h0

\* C15 witness: a tick handled a knob message while the first strip was bound
C15_Witness ==
    /\ currentData[0] # NoneData
    /\ knob_values[0] = 127
    /\ \E i \in LogIdx : IsOp(i, "knob_turned") /\ log[i].ch = 0

\* C16: outbound LED feedback. Every message the program sends is a control
\* change with control 32+c for the channel c in 0..7 whose button was
\* handled, and value 127 when the mute state it reports is on, 0 when off;
\* send_led_feedback(c, state) sends exactly that for every c and state while
\* the output port is open, and nothing while it is not; the surface has
\* received no other value on any LED.
C16_LedFeedback ==
    /\ \A i \in LogIdx :
          IsOp(i, "send") =>
              /\ i > 2 /\ IsOp(i - 1, "toggle_mute") /\ IsOp(i - 2, "button_pressed")
              /\ log[i - 2].ch \in 0 .. 7
              /\ log[i].control = 32 + log[i - 2].ch
              /\ log[i].value = (IF log[i - 1].ret THEN 127 ELSE 0)
    /\ \A h0 \in {Handler("ok")} :
          \A c \in 0 .. 7, state \in BOOLEAN :
              \A h \in {send_led_feedback(h0, c, state)} :
                  IF midi_out
                  THEN /\ h.log = <<[op |-> "send", control |-> 32 + c,
                                     value |-> IF state THEN 127 ELSE 0,
                                     prev |-> led[32 + c]]>>
                       /\ h.led = [led EXCEPT ![32 + c] = IF state THEN 127 ELSE 0]
                  ELSE h = h0
    /\ \A cc \in DOMAIN led : led[cc] \in {NoLed, 0, 127}

\* C16 witness: in one tick the first strip's LED was lit and put out again
C16_Witness ==
    \E i, j \in LogIdx :
        /\ i < j
        /\ IsOp(i, "send") /\ log[i].control = 32 /\ log[i].value = 127
        /\ IsOp(j, "send") /\ log[j].control = 32 /\ log[j].value = 0
        /\ led[32] = 0

\* C17: toggleMute is an involution. A successful toggle_mute on an
\* identifier, a step of the program or its environment that changes no mute
\* state, and a second successful toggle_mute on the same identifier leave
\* every mute state as it was before the first call, and each call returns the
\* mute state the identifier has after it.
C17_ToggleInvolution ==
    [][(masterMute' = masterMute /\ appMute' = appMute) =>
          \A id \in SessionIds :
              \A h1 \in {toggle_mute(Handler("ok"), id)} :
                  \A h2 \in {toggle_mute(h1, id)'} :
                      (h1.log[1].outcome = "ok" /\ h2.log[2].outcome = "ok") =>
                          /\ h2.masterMute = masterMute
                          /\ h2.appMute = appMute
                          /\ h1.log[1].ret = mixer_is_muted(h1, id)
                          /\ h2.log[2].ret = mixer_is_muted(h2, id)']_vars

\* the identifiers of the streams in an enumeration result
StreamIds(l) == {l[i] : i \in 2 .. Len(l)}

\* C18: identifiers of an enumeration. Every result update_sessions can give
\* for the running applications, and the one in use, has master first under
\* the sentinel -1, then one entry per stream with a non-negative index that no
\* other entry of the result has, so that no stream has the sentinel; the
\* strips are offered exactly these identifiers; and set_volume and
\* toggle_mute addressed to master change no stream, addressed to any other
\* identifier they leave master alone.
C18_Identifiers ==
    /\ \A enum \in Perms(running) \cup {sessions} :
          \A l \in {app_list(enum)} :
              /\ Len(l) = Len(enum) + 1
              /\ l[1] = MasterIdx
              /\ \A i \in 2 .. Len(l) : l[i] >= 0
              /\ \A i, j \in 1 .. Len(l) : l[i] = l[j] => i = j
              /\ MasterIdx \notin StreamIds(l)
    /\ options # {} => options = {MasterIdx} \cup StreamIds(app_list(sessions))
    /\ \A h0 \in {Handler("ok")} :
          \A raw \in FaderRaws :
              /\ \A h \in {set_volume(h0, MasterIdx, raw), toggle_mute(h0, MasterIdx)} :
                    h.appVol = appVol /\ h.appMute = appMute
              /\ set_volume(h0, MasterIdx, raw).masterVol = raw
              /\ toggle_mute(h0, MasterIdx).masterMute = ~masterMute
              /\ \A idx \in SessionIds \ {MasterIdx} :
                    \A h \in {set_volume(h0, idx, raw), toggle_mute(h0, idx)} :
                        h.masterVol = masterVol /\ h.masterMute = masterMute

\* C18 witness: with two streams enumerated, a tick set the volume of master
\* and left both streams at theirs
C18_Witness ==
    /\ Len(sessions) = 2
    /\ options = {MasterIdx, 0, 1}
    /\ \E i \in LogIdx :
          IsOp(i, "set_volume") /\ log[i].idx = MasterIdx /\ log[i].outcome = "ok"
    /\ masterVol = 127
    /\ \A a \in Apps : appVol[a] = DefaultVol

\* C19: the reconciliation pass is read-only on the registry. In every
\* reachable state a tick that finds no message pending calls neither
\* toggle_mute nor set_volume (all it does is set strip caches), leaves master's
\* and every stream's volume and mute as they are, and a second such tick
\* right after it changes nothing at all.
C19_ReconcileReadOnly ==
    \A h0 \in {Handler("ok")} :
        \A h \in {update_loop(h0, <<>>)} :
            /\ \A i \in 1 .. Len(h.log) : h.log[i].op = "reflect"
            /\ h.masterMute = masterMute /\ h.appMute = appMute
            /\ h.masterVol = masterVol /\ h.appVol = appVol
            /\ [h EXCEPT !.is_muted = h0.is_muted, !.log = <<>>] = h0
            /\ update_loop(h, <<>>) = h

\* C19 witness: a tick with nothing pending found the first strip's stream
\* muted from outside and set the strip's cache; the stream is still muted
C19_Witness ==
    /\ Len(log) = 1
    /\ IsOp(1, "reflect") /\ log[1].ch = 0 /\ log[1].muted
    /\ is_muted[0]
    /\ currentData[0] >= 0
    /\ mixer_is_muted(Handler("ok"), currentData[0])

\* C20: forward fader path. From every reachable state the slot called for a
\* move of fader c to v sets strip c's shown value (v as a percentage) and no
\* other strip's, and touches no mute state or LED; when strip c is bound it
\* makes one registry call, set_volume(bound identifier, v), which sets
\* master's volume and no stream's when the strip is bound to master, and the
\* bound stream's volume and nothing else when it is bound to a stream; when
\* strip c is not bound it makes no registry call and every volume stays.
C20_ForwardFader ==
    \A h0 \in {Handler("ok")} :
        \A c \in Strips, r \in FaderRaws :
            \A h \in {on_midi_fader_moved(h0, c, r)} :
                /\ h.fader = [fader EXCEPT ![c] = (r * 100) \div 127]
                /\ h.is_muted = is_muted /\ h.led = led
                /\ h.masterMute = masterMute /\ h.appMute = appMute
                /\ IF currentData[c] = NoneData
                   THEN h.log = <<>> /\ h.masterVol = masterVol /\ h.appVol = appVol
                   ELSE /\ Len(h.log) = 1
                        /\ h.log[1].op = "set_volume"
                        /\ h.log[1].idx = currentData[c]
                        /\ h.log[1].raw = r
                        /\ IF currentData[c] = MasterIdx
                           THEN h.masterVol = r /\ h.appVol = appVol
                           ELSE /\ h.masterVol = masterVol
                                /\ \A a \in Apps :
                                      h.appVol[a] =
                                          IF /\ h.log[1].outcome = "ok"
                                             /\ a = SessionApp(currentData[c])
                                          THEN r ELSE appVol[a]

\* C20 witness: a tick moved the first fader to the top while its strip was
\* bound to one of two streams: that stream's volume is set, the other's and
\* master's are not
C20_Witness ==
    /\ Len(sessions) = 2
    /\ currentData[0] >= 0
    /\ \E i \in LogIdx :
          /\ IsOp(i, "set_volume") /\ log[i].idx = currentData[0]
          /\ log[i].outcome = "ok" /\ log[i].raw = 127
    /\ fader[0] = 100
    /\ masterVol = DefaultVol
    /\ \A a \in Apps :
          appVol[a] = IF a = SessionApp(currentData[0]) THEN 127 ELSE DefaultVol

\* C21: ticks are mutually exclusive and commands are applied only at tick
\* boundaries. While update_loop is between two of its steps, the only step
\* taken is its own next one: no other tick starts, and no bind, unbind,
\* connect, disconnect or refresh changes the bindings, the session list, the
\* offered items, the ports or the timer.
C21_TicksExclusive ==
    [][update_loop_at # NotInTick =>
          /\ update_loop_at' = (IF update_loop_at + 1 = NumStrips THEN NotInTick
                                ELSE update_loop_at + 1)
          /\ UNCHANGED <<currentData, sessions, options, ports, timerActive>>]_vars

\* C21 witness: update_loop has visited the first strip, which is bound, set
\* its cache, and has seven strips to go
C21_Witness ==
    /\ update_loop_at = 1
    /\ currentData[0] # NoneData
    /\ Len(log) >= 1
    /\ IsOp(Len(log), "reflect")

\* C22: ticks execute only while connected. In every reachable state an active
\* timer means both ports are open; a step that starts the timer is a device
\* dialog whose connect_device returned True; and a step that leaves a port
\* closed leaves the timer stopped.
C22_TimerOnlyConnected ==
    /\ timerActive => (midi_in /\ midi_out)
    /\ [][/\ timerActive' => (midi_in' /\ midi_out')
          /\ (~timerActive /\ timerActive') =>
                (Len(log') = 2 /\ log'[2].op = "connect_device" /\ log'[2].ret)
          /\ (~midi_in' \/ ~midi_out') => ~timerActive']_vars

\* C22 witness: the device dialog has just connected: the ports are open and
\* the timer runs
C22_Witness ==
    /\ Len(log) = 2
    /\ IsOp(2, "connect_device") /\ log[2].ret
    /\ timerActive /\ midi_in /\ midi_out

\* C23: disconnecting does not discard bindings. A device dialog that is
\* cancelled or whose connect fails, and a close event, leave every strip's
\* selection and cached values as they are; a device dialog that connects
\* leaves the cached values, keeps a strip bound to master bound to master,
\* and keeps a strip bound to a stream bound to that stream whenever the
\* fresh enumeration still holds it.
C23_DisconnectKeepsBindings ==
    [][/\ (Len(log') = 1 /\ log'[1].op \in {"close", "closeEvent"}) =>
              currentData' = currentData /\ is_muted' = is_muted /\ fader' = fader
       /\ (Len(log') = 2 /\ log'[2].op = "connect_device") =>
              /\ is_muted' = is_muted /\ fader' = fader
              /\ ~log'[2].ret => currentData' = currentData
              /\ log'[2].ret =>
                    \A c \in Strips :
                        /\ currentData[c] = MasterIdx => currentData'[c] = MasterIdx
                        /\ \A app \in BoundApp(sessions, currentData[c]) :
                              (\E j \in 1 .. Len(sessions') : sessions'[j] = app) =>
                                  BoundApp(sessions', currentData'[c]) = {app}]_vars

\* C24: shutdown completes. Whenever a close request (the window's close
\* button or the tray menu's Exit, both delivered to closeEvent) has been
\* handled while the connection is open, eventually the tick timer is
\* stopped and both ports are closed.
C24_ShutdownCompletes ==
    (Len(log) = 1 /\ log[1].op = "closeEvent" /\ midi_in /\ midi_out)
        ~> (~timerActive /\ ~midi_in /\ ~midi_out)

\* C25: the two directions are open or closed together. In every reachable
\* state the input port is held open exactly when the output port is, and
\* right after a connect that returned failure neither port is open.
C25_PortsTogether ==
    /\ midi_in <=> midi_out
    /\ (open_inputs > 0) <=> (open_outputs > 0)
    /\ (Len(log) >= 1 /\ IsOp(Len(log), "connect_device") /\ ~log[Len(log)].ret) =>
           (~midi_in /\ ~midi_out /\ open_inputs = 0 /\ open_outputs = 0)

\* C26: cache and registry agree at tick end. From every state in which the
\* timer runs, a tick on any pending presses of the first two buttons that
\* runs to its end leaves every bound strip's cached mute equal to what the
\* registry then reports for the strip's selection, also for strips sharing
\* one stream of which only one had its button pressed.
C26_CacheAgreesAtTickEnd ==
    timerActive =>
        \A msgs \in PendingSlots, hw \in HwOutcomes :
            \A h \in {update_loop(Handler(hw), msgs)} :
                ~h.exc =>
                    \A c \in Strips :
                        currentData[c] # NoneData =>
                            h.is_muted[c] = mixer_is_muted(h, currentData[c])

\* C26 witness: the first two strips are on master, the tick just completed
\* handled a press of the first button only, toggled master, reflected the new
\* state in the second strip, and both caches equal the master mute
C26_Witness ==
    /\ currentData[0] = MasterIdx /\ currentData[1] = MasterIdx
    /\ Cardinality({i \in LogIdx : IsOp(i, "button_pressed")}) = 1
    /\ \E i, j \in LogIdx :
          /\ i < j
          /\ IsOp(i, "toggle_mute") /\ log[i].idx = MasterIdx /\ log[i].outcome = "ok"
          /\ IsOp(j, "reflect") /\ log[j].ch = 1 /\ log[j].muted = masterMute
    /\ \A i \in LogIdx : IsOp(i, "button_pressed") => log[i].ch = 0 /\ log[i].state
    /\ is_muted[0] = masterMute /\ is_muted[1] = masterMute

====
